---- MODULE Spec2Model ----
(***************************************************************************)
(* Model of the LLM request gateway of backend/server.py:                  *)
(*   - LocalLLMClient._format_messages   (history window)                  *)
(*   - LocalLLMClient._truncate_context  (context truncation)              *)
(*   - LocalLLMClient.get_available_models (model list cache)              *)
(*   - LocalLLMClient.generate_stream    (line loop of a streamed reply)   *)
(*   - check_rate_limit                  (per-user sliding window)         *)
(*   - LocalLLMClient.generate           (retry loop)                      *)
(*   - generate_with_local_llm           (POST /llm/generate)              *)
(*   - chat_with_agent                   (POST /chat: gate, dispatch,      *)
(*                                        metering, persistence, fallback) *)
(* Request handlers are asyncio coroutines: a handler runs atomically      *)
(* between two awaits, so every action below is the code between two       *)
(* consecutive awaits of one handler.                                      *)
(***************************************************************************)
EXTENDS Integers, Sequences, FiniteSets, TLC

VARIABLES
    \* ---- process configuration (read once from the environment) ----
    MAX_REQUESTS_PER_MINUTE,    \* server.py:56
    LOCAL_LLM_RETRY_ATTEMPTS,   \* server.py:51
    LOCAL_LLM_RETRY_DELAY,      \* server.py:52
    EMERGENT_LLM_KEY,           \* server.py:38, TRUE iff the key is a non-empty string
    \* ---- shared mutable state ----
    now,                        \* the value time.time() returns
    rate_limit_store,           \* server.py:67, user id -> list of timestamps
    db_users,                   \* db.users: user id -> [credits, total_credits_used]
    db_chat_history,            \* db.chat_history: sequence of inserted documents
    \* ---- one record per request handler in flight ----
    pc,                         \* position of the handler of request r
    data,                       \* the request's inputs
    user,                       \* the document get_current_user returned
    frame,                      \* the handler's local variables
    result,                     \* what the handler returned or raised
    effects,                    \* history of the side effects request r has had
    \* ---- a direct call of check_rate_limit ----
    rl_ret,                     \* its argument, the bucket and clock it saw, its result
    \* ---- a direct call of _truncate_context ----
    tc_messages, tc_max_chars, tc_called, tc_result,
    \* ---- a direct call of _format_messages ----
    fm_system_prompt, fm_user_message, fm_history, fm_called, fm_result,
    \* ---- the model registry of LocalLLMClient ----
    available_models_cache,     \* server.py:82, self._available_models_cache
    cache_time,                 \* server.py:83, self._cache_time
    mr_call,                    \* one record per caller of get_available_models
    mr_fetches,                 \* history of the refreshes of the cache
    \* ---- a direct call of generate_stream ----
    st_provider,                \* self.provider, server.py:76
    st_status,                  \* the status code of the streamed response
    st_lines,                   \* the lines response.aiter_lines() delivers
    st_fails,                   \* whether the transport raises after the last of them
    st_request,                 \* the endpoint and the payload of the request sent
    st_pos,                     \* how many of the lines the loop has taken
    st_pc,                      \* "idle", "start", "reading" or "ended"
    st_end,                     \* how the loop ended: "marker", "close" or "error"
    st_out,                     \* what the generator has yielded
    st_events,                  \* what the endpoint has sent to its client
    \* ---- concurrent request handlers at their admission check ----
    cc_call,                    \* one record per handler in flight
    cc_log                      \* the admissions so far, in the order they happened

vars == << MAX_REQUESTS_PER_MINUTE, LOCAL_LLM_RETRY_ATTEMPTS, LOCAL_LLM_RETRY_DELAY,
           EMERGENT_LLM_KEY,
           now, rate_limit_store, db_users, db_chat_history,
           pc, data, user, frame, result, effects,
           rl_ret, tc_messages, tc_max_chars, tc_called, tc_result,
           fm_system_prompt, fm_user_message, fm_history, fm_called, fm_result,
           available_models_cache, cache_time, mr_call, mr_fetches,
           st_provider, st_status, st_lines, st_fails, st_request, st_pos, st_pc,
           st_end, st_out, st_events, cc_call, cc_log >>

configVars == << MAX_REQUESTS_PER_MINUTE, LOCAL_LLM_RETRY_ATTEMPTS,
                LOCAL_LLM_RETRY_DELAY, EMERGENT_LLM_KEY >>
reqVars    == << pc, data, user, frame, result, effects >>
dbVars     == << db_users, db_chat_history >>
tcVars     == << tc_messages, tc_max_chars, tc_called, tc_result >>
fmVars     == << fm_system_prompt, fm_user_message, fm_history, fm_called, fm_result >>
mrVars     == << available_models_cache, cache_time, mr_call, mr_fetches >>
stVars     == << st_provider, st_status, st_lines, st_fails, st_request, st_pos,
                st_pc, st_end, st_out, st_events >>
ccVars     == << cc_call, cc_log >>

-----------------------------------------------------------------------------
(* Bounds of the model *)

MaxCeiling == 2     \* MAX_REQUESTS_PER_MINUTE ranges over 1..MaxCeiling
MaxRetry   == 3     \* LOCAL_LLM_RETRY_ATTEMPTS ranges over 0..MaxRetry
MaxTime    == 93    \* the clock stops advancing here
MaxMsgs    == 4     \* longest message list given to _truncate_context
MaxLen     == 2     \* longest message content
MaxBudget  == 6     \* largest max_chars
MaxHistory == 11    \* longest history given to _format_messages
MaxFetches == 3     \* provider queries of get_available_models in one behaviour
MaxLines   == 4     \* lines of one streamed response
MaxAdmitted == 3    \* admissions logged in one behaviour

(* Program constants *)

RATE_WINDOW     == 60       \* server.py:349  minute_ago = now - 60
MAX_PROMPT_SIZE == 32000    \* server.py:55
HISTORY_WINDOW  == 10       \* server.py:119  history[-10:]
CACHE_SECONDS   == 60       \* server.py:184  time.time() - self._cache_time < 60

Users == {"u1", "u2"}

\* values of LOCAL_LLM_RETRY_DELAY, in seconds
RetryDelays == {3}
Reqs  == {1}

-----------------------------------------------------------------------------
(* Sequence helpers *)

RECURSIVE SumLen(_)
\* sum(len(m.get("content", "")) for m in msgs)
SumLen(msgs) ==
    IF msgs = << >> THEN 0
    ELSE Len(Head(msgs).content) + SumLen(Tail(msgs))

\* list.insert(i, x) for 0 <= i <= len(list)
ListInsertMutant(list, i, x) == << x >> \o list
ListInsert(list, i, x) ==
    SubSeq(list, 1, i) \o << x >> \o SubSeq(list, i + 1, Len(list))

-----------------------------------------------------------------------------
(* LocalLLMClient._truncate_context, server.py:130-166 *)

Roles    == {"system", "user", "assistant"}
Contents == UNION { [1..n -> {"a"}] : n \in 0..MaxLen }
Messages == [role : Roles, content : Contents]
MessageLists == UNION { [1..n -> Messages] : n \in 0..MaxMsgs }

\* the test of line 157
FitsBudgetMutant(remaining_chars, msg_len) == remaining_chars > 0
FitsBudget(remaining_chars, msg_len) == remaining_chars - msg_len > 0

RECURSIVE TruncateWalk(_, _, _, _)
\* lines 155-161: for msg in reversed(messages), i is the index of msg
TruncateWalk(messages, i, res, remaining_chars) ==
    IF i = 0 THEN res
    ELSE LET msg     == messages[i]
             msg_len == Len(msg.content)
         IN  IF FitsBudget(remaining_chars, msg_len)
             THEN TruncateWalk(messages, i - 1,
                               ListInsert(res, IF res # << >> THEN 1 ELSE 0, msg),
                               remaining_chars - msg_len)
             ELSE res

\* the system message kept by lines 142-144, as a list of zero or one message
SystemPart(messages) ==
    IF messages # << >> /\ messages[1].role = "system"
    THEN << messages[1] >> ELSE << >>

\* last_message of line 147, as a list of zero or one message
LastPart(messages) ==
    LET rest == SubSeq(messages, Len(SystemPart(messages)) + 1, Len(messages))
    IN  IF rest # << >> THEN << rest[Len(rest)] >> ELSE << >>

truncate_context(messages, max_chars) ==
    IF SumLen(messages) <= max_chars THEN messages
    ELSE LET res0    == SystemPart(messages)
             rest    == SubSeq(messages, Len(res0) + 1, Len(messages))
             last    == LastPart(messages)
             history == IF rest # << >> THEN SubSeq(rest, 1, Len(rest) - 1) ELSE << >>
             remaining_chars == max_chars - SumLen(res0) - SumLen(last)
         IN  TruncateWalk(history, Len(history), res0, remaining_chars) \o last

-----------------------------------------------------------------------------
(* LocalLLMClient._format_messages, server.py:109-128 *)

\* msg.get(key, default)
Get(msg, key, default) == IF key \in DOMAIN msg THEN msg[key] ELSE default

\* list[-n:]
LastNMutant(list, n) == SubSeq(list, 1, IF Len(list) > n THEN n ELSE Len(list))
LastN(list, n) ==
    SubSeq(list, IF Len(list) > n THEN Len(list) - n + 1 ELSE 1, Len(list))

\* lines 119-123: one emitted entry per message of history[-10:]
FormatHistory(history) ==
    LET window == LastN(history, HISTORY_WINDOW)
    IN  [i \in 1..Len(window) |->
            [role    |-> Get(window[i], "role", "user"),
             content |-> Get(window[i], "content", "")]]

\* an absent or empty system_prompt or history is falsy (lines 114, 118)
format_messages(system_prompt, user_message, history) ==
    (IF system_prompt # ""
     THEN << [role |-> "system", content |-> system_prompt] >> ELSE << >>)
    \o (IF history # << >> THEN FormatHistory(history) ELSE << >>)
    \o << [role |-> "user", content |-> user_message] >>

\* history documents: with both keys, and without the role key
HistoryEntries == { [role |-> "assistant", content |-> "x"], [content |-> "y"] }
Histories == UNION { [1..n -> HistoryEntries] : n \in 0..MaxHistory }

-----------------------------------------------------------------------------
(* LocalLLMClient.get_available_models, server.py:181-206 *)

Callers == {1, 2}

\* Python values of self._available_models_cache: None or a list
PyNone == [type |-> "None", items |-> << >>]
PyList(items) == [type |-> "list", items |-> items]

\* the lists of models a provider can answer with
ModelLists == { << >>, << "m1" >>, << "m1", "m2" >> }

\* bool(v): None and the empty list are falsy
Truthy(v) == v.type = "list" /\ v.items # << >>

\* line 184: the cache answers the call
CacheAnswers(force_refresh, cache, t_cache, t_now) ==
    ~force_refresh /\ Truthy(cache) /\ t_now - t_cache < CACHE_SECONDS

\* line 201: the fetch time is replaced together with the list of line 200
StoredWithListMutant(old, new) == old
StoredWithList(old, new) == new

\* line 206: what a failed refresh returns
FailedRefreshResultMutant == available_models_cache
FailedRefreshResult == PyList(<< >>)

\* a caller that is not inside get_available_models, and the history of
\* refreshes before the first one
IdleCall == [pc |-> "idle", force_refresh |-> FALSE, at |-> 0, queried |-> FALSE,
             outcome |-> "none", ret |-> PyNone,
             seen_ok |-> FALSE, seen_list |-> << >>, seen_time |-> 0,
             list_by |-> 0, time_by |-> 0]
NoFetches == [count |-> 0, ok |-> FALSE, ok_list |-> << >>, ok_time |-> 0,
              list_by |-> 0, time_by |-> 0]

-----------------------------------------------------------------------------
(* check_rate_limit, server.py:346-361 *)

\* line 355: [t for t in bucket if t > minute_ago]
PruneBucketMutant(bucket, t_now) == bucket
PruneBucket(bucket, t_now) ==
    SelectSeq(bucket, LAMBDA t : t > t_now - RATE_WINDOW)

\* bucket of user_id after lines 351-355
BucketAfterPrune(store, user_id, t_now) ==
    PruneBucket(IF user_id \in DOMAIN store THEN store[user_id] ELSE << >>, t_now)

\* line 357 negated: the request is admitted
UnderCeilingMutant(bucket) == Len(bucket) <= MAX_REQUESTS_PER_MINUTE
UnderCeiling(bucket) == Len(bucket) < MAX_REQUESTS_PER_MINUTE

\* the value check_rate_limit(user_id) returns
check_rate_limit(store, user_id, t_now) ==
    UnderCeiling(BucketAfterPrune(store, user_id, t_now))

\* rate_limit_store after check_rate_limit(user_id)
StoreAfterCheckLost(store, user_id, t_now) ==
    [u \in DOMAIN store \cup {user_id} |->
        IF u = user_id THEN BucketAfterPrune(store, user_id, t_now) ELSE store[u]]
StoreAfterCheckAlone(store, user_id, t_now) ==
    [u \in {user_id} |-> Append(BucketAfterPrune(store, user_id, t_now), t_now)]
StoreAfterCheckMutant(store, user_id, t_now) ==
    [u \in DOMAIN store \cup {user_id} |->
        IF u = user_id THEN Append(BucketAfterPrune(store, user_id, t_now), t_now)
        ELSE store[u]]
StoreAfterCheck(store, user_id, t_now) ==
    LET pruned == BucketAfterPrune(store, user_id, t_now)
        bucket == IF UnderCeiling(pruned) THEN Append(pruned, t_now) ELSE pruned
    IN  [u \in DOMAIN store \cup {user_id} |->
            IF u = user_id THEN bucket ELSE store[u]]

\* the handlers that can be in flight together, one per endpoint with an
\* admission check (lines 1045, 693, 722), and a handler not in flight
Handlers == {"chat", "generate", "stream"}
IdleHandler == [pc |-> "idle", user_id |-> "none"]

-----------------------------------------------------------------------------
(* Initial states *)

NoData == [endpoint |-> "none", user_id |-> "none", agent_valid |-> FALSE,
           message |-> [len |-> 0, words |-> 0], use_local_llm |-> FALSE]
NoUser == [id |-> "none", credits |-> 0]
EmptyFrame == [local_llm_free |-> FALSE, min_credits |-> 0, credits_per_1k |-> 0,
               use_local |-> FALSE, attempt |-> 0, last_error |-> "None",
               response |-> -1, credits_used |-> 0]
EmptyResult == [status |-> 0, detail |-> "", cause |-> "None", response |-> -1,
                credits_used |-> 0, fallback |-> FALSE, remaining_credits |-> 0]
EmptyEffects == [stamped |-> 0, local_attempts |-> 0, local_raised |-> FALSE,
                 cloud_calls |-> 0, fallback_calls |-> 0, deducted |-> 0,
                 records |-> 0,
                 failed |-> 0,             \* attempts of generate that failed
                 last_outcome |-> "None",  \* how its latest attempt ended
                 mixed |-> FALSE,          \* attempts failed in different ways
                 delays |-> << >>]         \* the arguments of asyncio.sleep, line 274

InitShared ==
    /\ now = 0
    /\ rate_limit_store = << >>
    /\ db_chat_history = << >>
    /\ pc = [r \in Reqs |-> "idle"]
    /\ data = [r \in Reqs |-> NoData]
    /\ user = [r \in Reqs |-> NoUser]
    /\ frame = [r \in Reqs |-> EmptyFrame]
    /\ result = [r \in Reqs |-> EmptyResult]
    /\ effects = [r \in Reqs |-> EmptyEffects]
    /\ rl_ret = [user_id |-> "none", admitted |-> FALSE, before |-> << >>, at |-> 0]
    /\ available_models_cache = PyNone
    /\ cache_time = 0
    /\ mr_call = [c \in Callers |-> IdleCall]
    /\ mr_fetches = NoFetches
    /\ cc_call = [h \in Handlers |-> IdleHandler]
    /\ cc_log = << >>

InitNoFormat ==
    /\ fm_system_prompt = ""
    /\ fm_user_message = ""
    /\ fm_history = << >>
    /\ fm_called = FALSE
    /\ fm_result = << >>

InitNoStream ==
    /\ st_provider = "ollama"
    /\ st_status = 200
    /\ st_lines = << >>
    /\ st_fails = FALSE
    /\ st_request = [endpoints |-> "none", payload |-> "none"]
    /\ st_pos = 0
    /\ st_pc = "idle"
    /\ st_end = "none"
    /\ st_out = << >>
    /\ st_events = << >>

InitNoTruncate ==
    /\ tc_messages = << >>
    /\ tc_max_chars = 0
    /\ tc_called = FALSE
    /\ tc_result = << >>
    /\ InitNoFormat
    /\ InitNoStream

-----------------------------------------------------------------------------
(* Specification SpecTruncate: _truncate_context on every bounded input *)

InitTruncate ==
    /\ InitShared
    /\ MAX_REQUESTS_PER_MINUTE = 1
    /\ LOCAL_LLM_RETRY_ATTEMPTS = 1
    /\ LOCAL_LLM_RETRY_DELAY = 1
    /\ EMERGENT_LLM_KEY = FALSE
    /\ db_users = [u \in Users |-> [credits |-> 0, total_credits_used |-> 0]]
    /\ tc_messages \in MessageLists
    /\ tc_max_chars \in 0..MaxBudget
    /\ tc_called = FALSE
    /\ tc_result = << >>
    /\ InitNoFormat
    /\ InitNoStream

TruncateCall ==
    /\ ~tc_called
    /\ tc_called' = TRUE
    /\ tc_result' = truncate_context(tc_messages, tc_max_chars)
    /\ UNCHANGED << configVars, now, rate_limit_store, dbVars, reqVars, rl_ret,
                    tc_messages, tc_max_chars, fmVars, mrVars, stVars, ccVars >>

NextTruncate == TruncateCall

-----------------------------------------------------------------------------
(* Specification SpecFormat: _format_messages on every bounded input *)

InitFormat ==
    /\ InitShared
    /\ MAX_REQUESTS_PER_MINUTE = 1
    /\ LOCAL_LLM_RETRY_ATTEMPTS = 1
    /\ LOCAL_LLM_RETRY_DELAY = 1
    /\ EMERGENT_LLM_KEY = FALSE
    /\ db_users = [u \in Users |-> [credits |-> 0, total_credits_used |-> 0]]
    /\ tc_messages = << >>
    /\ tc_max_chars = 0
    /\ tc_called = FALSE
    /\ tc_result = << >>
    /\ fm_system_prompt \in {"", "s"}
    /\ fm_user_message \in {"", "q"}
    /\ fm_history \in Histories
    /\ fm_called = FALSE
    /\ fm_result = << >>
    /\ InitNoStream

FormatCall ==
    /\ ~fm_called
    /\ fm_called' = TRUE
    /\ fm_result' = format_messages(fm_system_prompt, fm_user_message, fm_history)
    /\ UNCHANGED << configVars, now, rate_limit_store, dbVars, reqVars, rl_ret,
                    tcVars, fm_system_prompt, fm_user_message, fm_history, mrVars, stVars, ccVars >>

NextFormat == FormatCall

SpecFormat == InitFormat /\ [][NextFormat]_vars

SpecTruncate == InitTruncate /\ [][NextTruncate]_vars

-----------------------------------------------------------------------------
(* LocalLLMClient.generate_stream, server.py:278-338, and the endpoint     *)
(* /llm/generate/stream that relays it, server.py:726-739                   *)
(* Specification SpecStream: one streamed reply, from the request to the    *)
(* last event the endpoint sends                                            *)

\* values of LOCAL_LLM_PROVIDER, server.py:43: the three kinds the client has
\* endpoints for, and "vllm" for any other string
KnownProviders == {"ollama", "lmstudio", "llamacpp"}
Providers == KnownProviders \cup {"vllm"}

\* line 107: the endpoint set in use, that of ollama for a kind that has none
EndpointSet(provider) ==
    IF provider \in KnownProviders THEN provider ELSE "ollama"

\* lines 87-106: the dialect the chat endpoint of an endpoint set speaks
EndpointDialect(provider) ==
    IF EndpointSet(provider) = "ollama" THEN "ollama" ELSE "openai"

\* lines 227-245 and 295-312: the shape of the payload
PayloadDialect(provider) ==
    IF provider = "ollama" THEN "ollama" ELSE "openai"

\* lines 259-262 and 320-332: the shape the reply is parsed as
ParseDialect(provider) ==
    IF provider = "ollama" THEN "ollama" ELSE "openai"

\* What a line is to the dialect the reply is parsed as:
\*   empty        the empty string
\*   content      a chunk of the dialect's shape with a non-empty content
\*   no_content   a chunk of the dialect's shape with an empty or absent content,
\*                or any other JSON object without the keys of a chunk, as
\*                {"error": "model not found"}
\*   not_json     text json.loads rejects
\*   wrong_shape  JSON that is not of the chunk shape: a number, a string or
\*                a list, {"message": "x"}, {"choices": []}
\*   done         the text [DONE], with or without the prefix "data: "
LineKinds == {"empty", "content", "no_content", "not_json", "wrong_shape", "done"}
LineLists == UNION { [1..n -> LineKinds] : n \in 0..MaxLines }

\* the status codes of a response: success and a failure
StatusCodes == {200, 500}

LineEffectMutant(provider, kind) ==
    CASE kind = "empty" -> "skip"
      [] kind = "content" -> "yield"
      [] kind = "no_content" -> "skip"
      [] kind = "not_json" -> "skip"
      [] kind = "wrong_shape" -> "raise"
      [] kind = "done" -> "skip"

\* what lines 317-335 do with one line: "yield" its content, "skip" it, "break"
\* out of the loop, or "raise" an exception that is not a JSONDecodeError
\* (AttributeError of .get on a value that is no dict, IndexError of [0])
LineEffect(provider, kind) ==
    CASE kind = "empty" -> "skip"
      [] kind = "content" -> "yield"
      [] kind = "no_content" -> "skip"
      [] kind = "not_json" -> "skip"
      [] kind = "wrong_shape" -> "raise"
      [] kind = "done" -> IF ParseDialect(provider) = "openai" THEN "break" ELSE "skip"

\* the chunk yielded by line 338
ErrorChunk == 0

\* the event of line 737
Sentinel == -1

YieldMutant(out, chunk) == << chunk >> \o out

\* lines 324, 332 and 338: the generator yields a chunk; line 736: the endpoint
\* sends the event of a chunk
Yield(out, chunk) == Append(out, chunk)

YieldErrorMutant(out) == out

\* lines 336-338: the handler of any exception raised in the try block
YieldError(out) == Yield(out, ErrorChunk)

CloseEventsMutant(events) == events

\* line 737: the endpoint's generator after the last chunk
CloseEvents(events) == Yield(events, Sentinel)

\* lines 728-736: the endpoint sends one event for the chunk the generator
\* has just yielded, if it yielded one
Relay(events, before, after) ==
    IF Len(after) > Len(before) THEN Yield(events, after[Len(after)]) ELSE events

InitStream ==
    /\ InitShared
    /\ MAX_REQUESTS_PER_MINUTE = 1
    /\ LOCAL_LLM_RETRY_ATTEMPTS = 1
    /\ LOCAL_LLM_RETRY_DELAY = 1
    /\ EMERGENT_LLM_KEY = FALSE
    /\ db_users = [u \in Users |-> [credits |-> 0, total_credits_used |-> 0]]
    /\ tc_messages = << >>
    /\ tc_max_chars = 0
    /\ tc_called = FALSE
    /\ tc_result = << >>
    /\ InitNoFormat
    /\ st_provider \in Providers
    /\ st_status \in StatusCodes
    /\ st_lines \in LineLists
    /\ st_fails \in BOOLEAN
    /\ st_request = [endpoints |-> "none", payload |-> "none"]
    /\ st_pos = 0
    /\ st_pc = "start"
    /\ st_end = "none"
    /\ st_out = << >>
    /\ st_events = << >>

\* lines 295-315: the payload is built and posted to the chat endpoint; the
\* status code of the response is not looked at
StreamOpen ==
    /\ st_pc = "start"
    /\ st_request' = [endpoints |-> EndpointDialect(st_provider),
                      payload |-> PayloadDialect(st_provider)]
    /\ st_pc' = "reading"
    /\ UNCHANGED << configVars, now, rate_limit_store, dbVars, reqVars, rl_ret,
                    tcVars, fmVars, mrVars, st_provider, st_status, st_lines,
                    st_fails, st_pos, st_end, st_out, st_events, ccVars >>

\* lines 316-338 and 728-737: the next line arrives; a yielded chunk is the
\* number of its line, and the endpoint sends one event for it; when the
\* generator ends the endpoint sends its last event
StreamLine ==
    /\ st_pc = "reading"
    /\ st_pos < Len(st_lines)
    /\ st_pos' = st_pos + 1
    /\ LET effect == LineEffect(st_provider, st_lines[st_pos + 1])
           out == CASE effect = "yield" -> Yield(st_out, st_pos + 1)
                    [] effect = "raise" -> YieldError(st_out)
                    [] OTHER -> st_out
           events == Relay(st_events, st_out, out)
       IN
       /\ st_out' = out
       /\ st_events' = IF effect \in {"break", "raise"} THEN CloseEvents(events)
                       ELSE events
       /\ st_pc' = IF effect \in {"break", "raise"} THEN "ended" ELSE "reading"
       /\ st_end' = CASE effect = "break" -> "marker"
                      [] effect = "raise" -> "error"
                      [] OTHER -> st_end
    /\ UNCHANGED << configVars, now, rate_limit_store, dbVars, reqVars, rl_ret,
                    tcVars, fmVars, mrVars, st_provider, st_status, st_lines,
                    st_fails, st_request, ccVars >>

\* line 316: the response has no further line and the connection is closed
StreamEnd ==
    /\ st_pc = "reading"
    /\ st_pos = Len(st_lines)
    /\ ~st_fails
    /\ st_pc' = "ended"
    /\ st_end' = "close"
    /\ st_events' = CloseEvents(st_events)
    /\ UNCHANGED << configVars, now, rate_limit_store, dbVars, reqVars, rl_ret,
                    tcVars, fmVars, mrVars, st_provider, st_status, st_lines,
                    st_fails, st_request, st_pos, st_out, ccVars >>

\* lines 314-316 and 336-338: the transport raises, a connection that fails or
\* times out before the first line or a read that fails after the last one
StreamFail ==
    /\ st_pc = "reading"
    /\ st_pos = Len(st_lines)
    /\ st_fails
    /\ st_pc' = "ended"
    /\ st_end' = "error"
    /\ LET out == YieldError(st_out) IN
       /\ st_out' = out
       /\ st_events' = CloseEvents(Relay(st_events, st_out, out))
    /\ UNCHANGED << configVars, now, rate_limit_store, dbVars, reqVars, rl_ret,
                    tcVars, fmVars, mrVars, st_provider, st_status, st_lines,
                    st_fails, st_request, st_pos, ccVars >>

NextStream == StreamOpen \/ StreamLine \/ StreamEnd \/ StreamFail

SpecStream == InitStream /\ [][NextStream]_vars

-----------------------------------------------------------------------------
(* Specification SpecModels: concurrent calls of get_available_models under *)
(* a non-decreasing clock                                                   *)

InitModels ==
    /\ InitShared
    /\ InitNoTruncate
    /\ MAX_REQUESTS_PER_MINUTE = 1
    /\ LOCAL_LLM_RETRY_ATTEMPTS = 1
    /\ LOCAL_LLM_RETRY_DELAY = 1
    /\ EMERGENT_LLM_KEY = FALSE
    /\ db_users = [u \in Users |-> [credits |-> 0, total_credits_used |-> 0]]

\* lines 184-189: caller c enters get_available_models(force_refresh); the
\* cache answers, or the GET of the model list is sent
ModelsEnter(c) ==
    /\ mr_call[c].pc = "idle"
    /\ \E force_refresh \in BOOLEAN :
          LET call == [IdleCall EXCEPT !.force_refresh = force_refresh, !.at = now,
                                       !.seen_ok = mr_fetches.ok,
                                       !.seen_list = mr_fetches.ok_list,
                                       !.seen_time = mr_fetches.ok_time]
          IN  IF CacheAnswers(force_refresh, available_models_cache, cache_time, now)
              THEN /\ mr_call' = [mr_call EXCEPT ![c] =
                         [call EXCEPT !.pc = "done", !.outcome = "cached",
                                      !.ret = available_models_cache,
                                      !.list_by = mr_fetches.list_by,
                                      !.time_by = mr_fetches.time_by]]
                   /\ UNCHANGED mr_fetches
              ELSE /\ mr_fetches.count < MaxFetches
                   /\ mr_call' = [mr_call EXCEPT ![c] =
                         [call EXCEPT !.pc = "get", !.queried = TRUE]]
                   /\ mr_fetches' = [mr_fetches EXCEPT !.count = @ + 1]
    /\ UNCHANGED << configVars, now, rate_limit_store, dbVars, reqVars, rl_ret,
                    tcVars, fmVars, available_models_cache, cache_time, stVars, ccVars >>

\* lines 189-206: the GET of caller c ends
ModelsReply(c) ==
    /\ mr_call[c].pc = "get"
    /\ \/ \* status 200 and a body that parses: lines 190-202
          \E models \in ModelLists :
             /\ available_models_cache' = PyList(models)
             /\ cache_time' = StoredWithList(cache_time, now)
             /\ mr_fetches' = [mr_fetches EXCEPT !.ok = TRUE, !.ok_list = models,
                                                 !.ok_time = now,
                                                 !.list_by = mr_fetches.count,
                                                 !.time_by = StoredWithList(@, mr_fetches.count)]
             /\ mr_call' = [mr_call EXCEPT ![c].pc = "done", ![c].outcome = "fetched",
                                           ![c].ret = PyList(models)]
       \/ \* another status, or an exception that line 203 catches
          \E outcome \in {"status", "exception"} :
             /\ mr_call' = [mr_call EXCEPT ![c].pc = "done", ![c].outcome = outcome,
                                           ![c].ret = FailedRefreshResult]
             /\ UNCHANGED << available_models_cache, cache_time, mr_fetches >>
    /\ UNCHANGED << configVars, now, rate_limit_store, dbVars, reqVars, rl_ret,
                    tcVars, fmVars, stVars, ccVars >>

\* the caller has its answer and may call again
ModelsReturn(c) ==
    /\ mr_call[c].pc = "done"
    /\ mr_call' = [mr_call EXCEPT ![c] = IdleCall]
    /\ UNCHANGED << configVars, now, rate_limit_store, dbVars, reqVars, rl_ret,
                    tcVars, fmVars, available_models_cache, cache_time, mr_fetches,
                    stVars, ccVars >>

-----------------------------------------------------------------------------
(* Specification SpecRate: any sequence of check_rate_limit calls under a    *)
(* non-decreasing clock                                                     *)

InitRate ==
    /\ InitShared
    /\ InitNoTruncate
    /\ MAX_REQUESTS_PER_MINUTE \in 1..MaxCeiling
    /\ LOCAL_LLM_RETRY_ATTEMPTS = 1
    /\ LOCAL_LLM_RETRY_DELAY = 1
    /\ EMERGENT_LLM_KEY = FALSE
    /\ db_users = [u \in Users |-> [credits |-> 0, total_credits_used |-> 0]]

TickSteps == {30, 31}

\* time passes
Tick ==
    /\ \E d \in TickSteps :
          /\ now + d <= MaxTime
          /\ now' = now + d
    /\ UNCHANGED << configVars, rate_limit_store, dbVars, reqVars, rl_ret, tcVars, fmVars, mrVars, stVars, ccVars >>

\* a call check_rate_limit(user_id)
CheckRateLimitCall(user_id) ==
    /\ rl_ret' = [user_id |-> user_id,
                  admitted |-> check_rate_limit(rate_limit_store, user_id, now),
                  before |-> IF user_id \in DOMAIN rate_limit_store
                             THEN rate_limit_store[user_id] ELSE << >>,
                  at |-> now]
    /\ rate_limit_store' = StoreAfterCheck(rate_limit_store, user_id, now)
    /\ UNCHANGED << configVars, now, dbVars, reqVars, tcVars, fmVars, mrVars, stVars, ccVars >>

NextRate ==
    \/ Tick
    \/ \E u \in Users : CheckRateLimitCall(u)

SpecRate == InitRate /\ [][NextRate]_vars

\* Specification SpecConc: handlers of /chat, /llm/generate and
\* /llm/generate/stream in flight together.  Each handler awaits
\* get_current_user (line 605), then runs check_rate_limit (lines 1045, 693,
\* 722) with no await inside it, then goes on to further awaits.

InitConc ==
    /\ InitShared
    /\ InitNoTruncate
    /\ MAX_REQUESTS_PER_MINUTE \in 1..MaxCeiling
    /\ LOCAL_LLM_RETRY_ATTEMPTS = 1
    /\ LOCAL_LLM_RETRY_DELAY = 1
    /\ EMERGENT_LLM_KEY = FALSE
    /\ db_users = [u \in Users |-> [credits |-> 0, total_credits_used |-> 0]]

\* a request arrives and awaits get_current_user
HandlerArrive(h) ==
    /\ cc_call[h].pc = "idle"
    /\ \E u \in Users :
          cc_call' = [cc_call EXCEPT ![h] = [pc |-> "auth", user_id |-> u]]
    /\ UNCHANGED << configVars, now, rate_limit_store, dbVars, reqVars, rl_ret,
                    tcVars, fmVars, mrVars, stVars, cc_log >>

\* get_current_user has returned: the handler runs up to its next await, which
\* lies behind the call of check_rate_limit
HandlerAdmit(h) ==
    /\ cc_call[h].pc = "auth"
    /\ Len(cc_log) < MaxAdmitted
    /\ LET u == cc_call[h].user_id
           admitted == check_rate_limit(rate_limit_store, u, now)
       IN  /\ rate_limit_store' = StoreAfterCheck(rate_limit_store, u, now)
           /\ cc_call' = [cc_call EXCEPT ![h].pc =
                             IF admitted THEN "admitted" ELSE "rejected"]
           /\ cc_log' = IF admitted
                        THEN Append(cc_log,
                               [user_id |-> u, at |-> now,
                                count |-> Len(BucketAfterPrune(rate_limit_store, u, now))])
                        ELSE cc_log
    /\ UNCHANGED << configVars, now, dbVars, reqVars, rl_ret,
                    tcVars, fmVars, mrVars, stVars >>

\* the handler replies: 429 when rejected, its result otherwise
HandlerLeave(h) ==
    /\ cc_call[h].pc \in {"admitted", "rejected"}
    /\ cc_call' = [cc_call EXCEPT ![h] = IdleHandler]
    /\ UNCHANGED << configVars, now, rate_limit_store, dbVars, reqVars, rl_ret,
                    tcVars, fmVars, mrVars, stVars, cc_log >>

NextConc ==
    \/ Tick
    \/ \E h \in Handlers : HandlerArrive(h) \/ HandlerAdmit(h) \/ HandlerLeave(h)

SpecConc == InitConc /\ [][NextConc]_vars

NextModels ==
    \/ Tick
    \/ \E c \in Callers : ModelsEnter(c) \/ ModelsReply(c) \/ ModelsReturn(c)

SpecModels == InitModels /\ [][NextModels]_vars

-----------------------------------------------------------------------------
(* Requests: POST /chat (chat_with_agent, server.py:1039-1152) and           *)
(* POST /llm/generate (generate_with_local_llm, server.py:681-710)          *)
(*                                                                         *)
(* Specification Spec follows one request handler from its arrival to its  *)
(* reply, with the providers and the database answering or failing at      *)
(* every await, while admission checks of other requests of the same users *)
(* arrive at any moment.  The clock stands still in Spec; SpecRate is the  *)
(* specification in which it advances.  The project lookup of lines        *)
(* 1057-1064 only adds text to full_message and is part of the choice of   *)
(* the prompt's word count.                                                *)

LOCAL_LLM_ENABLED == TRUE   \* server.py:42, the default

\* A message: its length in characters (len(data.message)) and the number of
\* whitespace-separated words of the prompt built from it
\* (len(full_message.split()), line 1066: "User: <name>\n\nRequest: <message>")
MessageShapes == { [len |-> 5,     words |-> 3],
                   [len |-> 32000, words |-> 2000],
                   [len |-> 32001, words |-> 2000] }

\* len(response.split()) of a provider's reply
ResponseWords == {1, 2000}

\* the document get_system_settings returns (DEFAULT_SETTINGS, lines 371-377,
\* as changed by the administrator)
SettingsSet == [local_llm_free : BOOLEAN,
                min_credits_for_chat : {5},
                credits_per_1k_tokens : {-10, 0, 10, 20}]

\* credits a user may hold when the model starts
InitCredits == {4, 5}

\* what one attempt of LocalLLMClient.generate can end with (lines 249-271)
AttemptFailures == {"HTTP", "Request timed out", "Cannot connect to LLM server", "error"}

RequestData == [endpoint : {"chat"}, user_id : Users, agent_valid : BOOLEAN,
                message : MessageShapes, use_local_llm : BOOLEAN]
          \cup [endpoint : {"generate"}, user_id : Users, agent_valid : {TRUE},
                message : MessageShapes, use_local_llm : {TRUE}]

Max(a, b) == IF a >= b THEN a ELSE b

\* an HTTPException, or a JSON error reply, with this status and detail
Failure(status, detail) ==
    [EmptyResult EXCEPT !.status = status, !.detail = detail]

\* line 1069
UseLocal(d) == d.use_local_llm /\ LOCAL_LLM_ENABLED

\* line 1073: the credit gate applies
GateApplies(use_local, local_llm_free) == ~use_local \/ ~local_llm_free

\* line 1075: the gate rejects
GateRejectsMutant(credits, min_credits) == credits <= min_credits
GateRejects(credits, min_credits) == credits < min_credits

\* line 1089: credits of a reply of the local provider
LocalCreditsMutant(local_llm_free, prompt_words) == Max(1, prompt_words \div 100)
LocalCredits(local_llm_free, prompt_words) ==
    IF local_llm_free THEN 0 ELSE Max(1, prompt_words \div 100)

\* int(a / b) for b > 0: the quotient rounded towards zero
IntQuotient(a, b) == IF a >= 0 THEN a \div b ELSE -((-a) \div b)

\* lines 1101-1103: credits of a reply of the cloud provider; the code computes
\* int((tokens_used / 1000) * credits_per_1k) in floating point, which equals
\* the integer quotient for the values of this model
CloudCreditsMutant(prompt_words, response_words, credits_per_1k) ==
    IntQuotient((prompt_words + response_words) * credits_per_1k, 1000)
CloudCredits(prompt_words, response_words, credits_per_1k) ==
    Max(1, IntQuotient((prompt_words + response_words) * credits_per_1k, 1000))

\* lines 264-271: last_error after an attempt that failed with err
NoteErrorMutant(last_error, err) == IF last_error = "None" THEN err ELSE last_error
NoteError(last_error, err) == err

\* line 274: the delay slept after the failed attempt number attempt + 1
RetryDelayMutant(attempt) == LOCAL_LLM_RETRY_DELAY
RetryDelay(attempt) == LOCAL_LLM_RETRY_DELAY * (attempt + 1)

\* line 248: range(LOCAL_LLM_RETRY_ATTEMPTS) has a further attempt after `attempt`
HasNextAttemptMutant(attempt) == attempt < LOCAL_LLM_RETRY_ATTEMPTS
HasNextAttempt(attempt) == attempt < LOCAL_LLM_RETRY_ATTEMPTS - 1

\* the handler of request r moves to position p with locals f, outcome res and
\* effects eff
Goto(r, p, f, res, eff) ==
    /\ pc' = [pc EXCEPT ![r] = p]
    /\ frame' = [frame EXCEPT ![r] = f]
    /\ result' = [result EXCEPT ![r] = res]
    /\ effects' = [effects EXCEPT ![r] = eff]

\* the handler of request r returns or raises res
Finish(r, f, res, eff) == Goto(r, "done", f, res, eff)

\* lines 1128-1152: the except clauses of chat_with_agent for an exception that is
\* not an HTTPException: fall back to the cloud when the request used the local
\* provider and a cloud key is set, otherwise raise 503
HandleException(r, f, eff) ==
    IF f.use_local /\ EMERGENT_LLM_KEY
    THEN Goto(r, "fallback", f, result[r], eff)
    ELSE Finish(r, f, Failure(503, "LLM service unavailable"), eff)

\* a request arrives: get_current_user (lines 599-612) reads the user's document
Authenticate(r) ==
    /\ pc[r] = "idle"
    /\ \E d \in RequestData :
          /\ data' = [data EXCEPT ![r] = d]
          /\ user' = [user EXCEPT ![r] =
                         [id |-> d.user_id, credits |-> db_users[d.user_id].credits]]
    /\ pc' = [pc EXCEPT ![r] = "entered"]
    /\ UNCHANGED << configVars, now, rate_limit_store, dbVars, frame, result,
                    effects, rl_ret, tcVars, fmVars, mrVars, stVars, ccVars >>

\* chat_with_agent, lines 1041-1052: agent check, rate limit, prompt size, up to
\* the await of get_system_settings
ChatAdmit(r) ==
    /\ pc[r] = "entered" /\ data[r].endpoint = "chat"
    /\ IF ~data[r].agent_valid
       THEN /\ Finish(r, frame[r], Failure(400, "Invalid agent type"), effects[r])
            /\ UNCHANGED rate_limit_store
       ELSE LET admitted == check_rate_limit(rate_limit_store, user[r].id, now)
                eff == [effects[r] EXCEPT !.stamped = IF admitted THEN 1 ELSE 0]
            IN  /\ rate_limit_store' = StoreAfterCheck(rate_limit_store, user[r].id, now)
                /\ IF ~admitted
                   THEN Finish(r, frame[r], Failure(429, "Rate limit exceeded"), eff)
                   ELSE IF data[r].message.len > MAX_PROMPT_SIZE
                   THEN Finish(r, frame[r], Failure(400, "Message too large"), eff)
                   ELSE Goto(r, "settings", frame[r], result[r], eff)
    /\ UNCHANGED << configVars, now, dbVars, data, user, rl_ret, tcVars, fmVars, mrVars, stVars, ccVars >>

\* line 276: generate raises HTTPException(503, "LLM request failed: <last_error>")
GenerateFailure(last_error) ==
    [Failure(503, "LLM request failed") EXCEPT !.cause = last_error]

\* the locals of generate are gone when it returns or raises
AfterGenerate(f) == [f EXCEPT !.attempt = 0, !.last_error = "None"]

\* LocalLLMClient.generate is entered (lines 219-248): the first attempt is sent,
\* or, with no attempt configured, line 276 raises at once
EnterGenerate(r, f, eff) ==
    IF LOCAL_LLM_RETRY_ATTEMPTS > 0
    THEN Goto(r, "local_post", [f EXCEPT !.attempt = 0], result[r], eff)
    ELSE Finish(r, f, GenerateFailure(f.last_error),
                [eff EXCEPT !.local_raised = TRUE])

\* ChatDispatch with the credit gate applied after the cloud provider was called
ChatDispatchMutant(r) ==
    /\ pc[r] = "settings"
    /\ \E settings \in SettingsSet :
          LET use_local == UseLocal(data[r])
              f == [frame[r] EXCEPT !.local_llm_free = settings.local_llm_free,
                                    !.min_credits = settings.min_credits_for_chat,
                                    !.credits_per_1k = settings.credits_per_1k_tokens,
                                    !.use_local = use_local]
          IN  IF /\ ~use_local \/ ~settings.local_llm_free
                 /\ user[r].credits < settings.min_credits_for_chat
              THEN Finish(r, f, Failure(402, "Insufficient credits"),
                          [effects[r] EXCEPT !.cloud_calls = @ + 1])
              ELSE IF use_local
              THEN EnterGenerate(r, f, effects[r])
              ELSE Goto(r, "cloud_send", f, result[r], effects[r])
    /\ UNCHANGED << configVars, now, rate_limit_store, dbVars, data, user, rl_ret,
                    tcVars, fmVars, mrVars, stVars, ccVars >>

\* chat_with_agent, lines 1052-1099: get_system_settings has returned; the credit
\* gate; the provider is called
ChatDispatch(r) ==
    /\ pc[r] = "settings"
    /\ \/ \E settings \in SettingsSet :
             LET use_local == UseLocal(data[r])
                 f == [frame[r] EXCEPT !.local_llm_free = settings.local_llm_free,
                                       !.min_credits = settings.min_credits_for_chat,
                                       !.credits_per_1k = settings.credits_per_1k_tokens,
                                       !.use_local = use_local]
             IN  IF /\ GateApplies(use_local, settings.local_llm_free)
                    /\ GateRejects(user[r].credits, settings.min_credits_for_chat)
                 THEN Finish(r, f, Failure(402, "Insufficient credits"), effects[r])
                 ELSE IF use_local
                 THEN EnterGenerate(r, f, effects[r])
                 ELSE Goto(r, "cloud_send", f, result[r], effects[r])
       \/ \* a database read of lines 1052-1058 raises: these lines are outside
          \* the try, the exception leaves the handler
          Finish(r, frame[r], Failure(500, "Internal Server Error"), effects[r])
    /\ UNCHANGED << configVars, now, rate_limit_store, dbVars, data, user, rl_ret,
                    tcVars, fmVars, mrVars, stVars, ccVars >>

\* generate_with_local_llm, lines 693-701: rate limit, prompt size, generate
GenerateAdmit(r) ==
    /\ pc[r] = "entered" /\ data[r].endpoint = "generate"
    /\ LET admitted == check_rate_limit(rate_limit_store, user[r].id, now)
           eff == [effects[r] EXCEPT !.stamped = IF admitted THEN 1 ELSE 0]
           f == [frame[r] EXCEPT !.use_local = TRUE]
       IN  /\ rate_limit_store' = StoreAfterCheck(rate_limit_store, user[r].id, now)
           /\ IF ~admitted
              THEN Finish(r, frame[r], Failure(429, "Rate limit exceeded"), eff)
              ELSE IF data[r].message.len > MAX_PROMPT_SIZE
              THEN Finish(r, frame[r], Failure(400, "Prompt too large"), eff)
              ELSE EnterGenerate(r, f, eff)
    /\ UNCHANGED << configVars, now, dbVars, data, user, rl_ret, tcVars, fmVars, mrVars, stVars, ccVars >>

\* LocalLLMClient.generate, lines 249-276: the POST of one attempt ends
ReturnToMutant(p, attempt) ==
    IF HasNextAttempt(attempt) THEN "local_sleep" ELSE p

\* LocalLLMClient.generate, lines 259-262: return leaves the retry loop; the
\* caller goes on at its position p
ReturnTo(p, attempt) == p

LocalAttempt(r) ==
    /\ pc[r] = "local_post"
    /\ LET sent == [effects[r] EXCEPT !.local_attempts = @ + 1] IN
       \/ \* status 200: the parsed content is returned (lines 256-262)
          \E w \in ResponseWords :
             LET eff == [sent EXCEPT !.last_outcome = "ok"] IN
             IF data[r].endpoint = "generate"
             THEN Goto(r, ReturnTo("done", frame[r].attempt),
                       [AfterGenerate(frame[r]) EXCEPT !.response = w],
                       [EmptyResult EXCEPT !.status = 200, !.response = w], eff)
             ELSE LET c == LocalCredits(frame[r].local_llm_free, data[r].message.words)
                      f == [AfterGenerate(frame[r]) EXCEPT !.response = w,
                                                           !.credits_used = c]
                  IN  Goto(r, ReturnTo(IF c > 0 THEN "deduct" ELSE "record",
                                       frame[r].attempt),
                           f, result[r], eff)
       \/ \* the attempt fails (lines 264-271)
          \E err \in AttemptFailures :
             LET f == [frame[r] EXCEPT !.last_error = NoteError(@, err)]
                 e == [sent EXCEPT !.failed = @ + 1, !.last_outcome = err,
                                   !.mixed = @ \/ sent.last_outcome \notin {"None", err}]
             IN  IF HasNextAttempt(f.attempt)
                 THEN Goto(r, "local_sleep", f, result[r],
                           [e EXCEPT !.delays = Append(@, RetryDelay(f.attempt))])
                 ELSE \* line 276 raises HTTPException(503); chat_with_agent
                      \* re-raises it (lines 1128-1129), generate_with_local_llm
                      \* turns it into a 503 of its own (lines 709-710)
                      Finish(r, AfterGenerate(f), GenerateFailure(f.last_error),
                             [e EXCEPT !.local_raised = TRUE])
    /\ UNCHANGED << configVars, now, rate_limit_store, dbVars, data, user, rl_ret,
                    tcVars, fmVars, mrVars, stVars, ccVars >>

\* LocalLLMClient.generate, lines 273-274 and 248: the sleep between two attempts
\* ends and the next attempt is sent
LocalRetry(r) ==
    /\ pc[r] = "local_sleep"
    /\ Goto(r, "local_post", [frame[r] EXCEPT !.attempt = @ + 1], result[r], effects[r])
    /\ UNCHANGED << configVars, now, rate_limit_store, dbVars, data, user, rl_ret,
                    tcVars, fmVars, mrVars, stVars, ccVars >>

\* chat_with_agent, lines 1099-1103: chat.send_message ends
CloudSend(r) ==
    /\ pc[r] = "cloud_send"
    /\ LET eff == [effects[r] EXCEPT !.cloud_calls = @ + 1] IN
       \/ \E w \in ResponseWords :
             LET c == CloudCredits(data[r].message.words, w, frame[r].credits_per_1k)
             IN  Goto(r, "deduct", [frame[r] EXCEPT !.response = w, !.credits_used = c],
                      result[r], eff)
       \/ HandleException(r, frame[r], eff)
    /\ UNCHANGED << configVars, now, rate_limit_store, dbVars, data, user, rl_ret,
                    tcVars, fmVars, mrVars, stVars, ccVars >>

\* chat_with_agent, lines 1106-1110: db.users.update_one ends
Deduct(r) ==
    /\ pc[r] = "deduct"
    /\ \/ /\ db_users' = [db_users EXCEPT
                ![user[r].id].credits = @ - frame[r].credits_used,
                ![user[r].id].total_credits_used = @ + frame[r].credits_used]
          /\ Goto(r, "record", frame[r], result[r],
                  [effects[r] EXCEPT !.deducted = @ + frame[r].credits_used])
       \/ /\ HandleException(r, frame[r], effects[r])
          /\ UNCHANGED db_users
    /\ UNCHANGED << configVars, now, rate_limit_store, db_chat_history, data, user,
                    rl_ret, tcVars, fmVars, mrVars, stVars, ccVars >>

\* chat_with_agent, lines 1113-1118: db.chat_history.insert_one ends
Record(r) ==
    /\ pc[r] = "record"
    /\ \/ /\ db_chat_history' = Append(db_chat_history,
                [request |-> r, user_id |-> user[r].id,
                 use_local_llm |-> frame[r].use_local,
                 credits_used |-> frame[r].credits_used])
          /\ Goto(r, "reread", frame[r], result[r],
                  [effects[r] EXCEPT !.records = @ + 1])
       \/ /\ HandleException(r, frame[r], effects[r])
          /\ UNCHANGED db_chat_history
    /\ UNCHANGED << configVars, now, rate_limit_store, db_users, data, user,
                    rl_ret, tcVars, fmVars, mrVars, stVars, ccVars >>

\* chat_with_agent, lines 1120-1126: db.users.find_one ends, the reply is returned
Reread(r) ==
    /\ pc[r] = "reread"
    /\ \/ Finish(r, frame[r],
                 [EmptyResult EXCEPT !.status = 200,
                                     !.response = frame[r].response,
                                     !.credits_used = frame[r].credits_used,
                                     !.remaining_credits = db_users[user[r].id].credits],
                 effects[r])
       \/ HandleException(r, frame[r], effects[r])
    /\ UNCHANGED << configVars, now, rate_limit_store, dbVars, data, user, rl_ret,
                    tcVars, fmVars, mrVars, stVars, ccVars >>

\* chat_with_agent, lines 1134-1152: the fallback's chat.send_message ends
Fallback(r) ==
    /\ pc[r] = "fallback"
    /\ LET eff == [effects[r] EXCEPT !.fallback_calls = @ + 1] IN
       \/ \E w \in ResponseWords :
             Finish(r, frame[r],
                    [EmptyResult EXCEPT !.status = 200, !.response = w,
                                        !.credits_used = 0, !.fallback = TRUE,
                                        !.remaining_credits = user[r].credits],
                    eff)
       \/ Finish(r, frame[r], Failure(503, "LLM service unavailable"), eff)
    /\ UNCHANGED << configVars, now, rate_limit_store, dbVars, data, user, rl_ret,
                    tcVars, fmVars, mrVars, stVars, ccVars >>

\* the admission check of another request of user_id: the first statement of
\* generate_stream_with_local_llm (line 722), or of a request of lines 693 and
\* 1045 that goes no further
OtherAdmission(user_id) ==
    /\ rate_limit_store' = StoreAfterCheck(rate_limit_store, user_id, now)
    /\ UNCHANGED << configVars, now, dbVars, reqVars, rl_ret, tcVars, fmVars, mrVars, stVars, ccVars >>

Init ==
    /\ InitNoTruncate
    /\ MAX_REQUESTS_PER_MINUTE \in 1..MaxCeiling
    /\ LOCAL_LLM_RETRY_ATTEMPTS \in 0..MaxRetry
    /\ LOCAL_LLM_RETRY_DELAY \in RetryDelays
    /\ EMERGENT_LLM_KEY \in BOOLEAN
    /\ db_users \in [Users -> [credits : InitCredits, total_credits_used : {0}]]
    /\ InitShared

Next ==
    \/ \E u \in Users : OtherAdmission(u)
    \/ \E r \in Reqs :
        \/ Authenticate(r)
        \/ ChatAdmit(r)
        \/ ChatDispatch(r)
        \/ GenerateAdmit(r)
        \/ LocalAttempt(r)
        \/ LocalRetry(r)
        \/ CloudSend(r)
        \/ Deduct(r)
        \/ Record(r)
        \/ Reread(r)
        \/ Fallback(r)

Spec == Init /\ [][Next]_vars

\* Specification SpecLive: one request handler on its own, in which the POST of
\* an attempt always ends (httpx.AsyncClient(timeout=self.timeout), line 250,
\* returns or raises) and asyncio.sleep (line 274) always returns
NextLive ==
    \E r \in Reqs :
        \/ Authenticate(r)
        \/ ChatAdmit(r)
        \/ ChatDispatch(r)
        \/ GenerateAdmit(r)
        \/ LocalAttempt(r)
        \/ LocalRetry(r)
        \/ CloudSend(r)
        \/ Deduct(r)
        \/ Record(r)
        \/ Reread(r)
        \/ Fallback(r)

SpecLive ==
    /\ Init
    /\ [][NextLive]_vars
    /\ \A r \in Reqs : WF_vars(LocalAttempt(r)) /\ WF_vars(LocalRetry(r))

-----------------------------------------------------------------------------
(* Properties *)

Done(r)      == pc[r] = "done"
Completed(r) == Done(r) /\ result[r].status = 200
Failed(r)    == Done(r) /\ result[r].status # 200
IsChat(r)    == data[r].endpoint = "chat"

\* the handler of r made no provider call, changed no balance, wrote no record
NoProviderCall(r) ==
    /\ effects[r].local_attempts = 0
    /\ effects[r].cloud_calls = 0
    /\ effects[r].fallback_calls = 0

\* r's view of its user's balance is what the database still holds
BalanceUntouched(r) ==
    /\ effects[r].deducted = 0
    /\ db_users[user[r].id] = [credits |-> user[r].credits, total_credits_used |-> 0]

\* the chat handler of r has evaluated, or skipped, the credit gate of line 1073
GateDecided(r) ==
    /\ IsChat(r)
    /\ \/ pc[r] \in {"local_post", "local_sleep", "cloud_send", "deduct", "record",
                     "reread", "fallback"}
       \/ Done(r) /\ result[r].status \notin {400, 429, 500}

\* the path of r is not free: the cloud provider, or local with local_llm_free off
NotFreePath(r) == ~frame[r].use_local \/ ~frame[r].local_llm_free

(* C1: a chat that prefers local inference, with a cloud key configured, whose
   local dispatch fails (generate makes its attempts, all fail, and raises) ends
   Completed with the fallback marker and credits_used = 0 unless the fallback
   call itself failed. *)
C1_FallbackAfterLocalFailure ==
    \A r \in Reqs :
        (IsChat(r) /\ Done(r) /\ frame[r].use_local /\ EMERGENT_LLM_KEY
            /\ effects[r].local_raised /\ effects[r].local_attempts >= 1)
        => \/ /\ result[r].status = 200
              /\ result[r].fallback
              /\ result[r].credits_used = 0
           \/ /\ effects[r].fallback_calls = 1
              /\ result[r].status = 503

(* C2: the content lengths of the output of _truncate_context sum to at most
   max_chars, except when the system message (if any) and the final message
   alone exceed max_chars, and then the output is exactly these messages. *)
C2_TruncateWithinBudget ==
    tc_called =>
        \/ SumLen(tc_result) <= tc_max_chars
        \/ /\ SumLen(SystemPart(tc_messages)) + SumLen(LastPart(tc_messages))
                  > tc_max_chars
           /\ tc_result = SystemPart(tc_messages) \o LastPart(tc_messages)

\* truncation ran, kept some of the history and dropped some of it
C2_Witness ==
    /\ tc_called
    /\ SumLen(tc_messages) > tc_max_chars
    /\ Len(tc_result) > Len(SystemPart(tc_messages)) + 1
    /\ Len(tc_result) < Len(tc_messages)
    /\ SumLen(tc_result) = tc_max_chars - 1

(* C3: after any sequence of check_rate_limit calls under a non-decreasing
   clock every user's bucket holds at most MAX_REQUESTS_PER_MINUTE timestamps. *)
C3_BucketWithinCeiling ==
    \A u \in DOMAIN rate_limit_store :
        Len(rate_limit_store[u]) <= MAX_REQUESTS_PER_MINUTE

\* a call was rejected on a full bucket after an earlier timestamp was pruned
C3_Witness ==
    /\ rl_ret.user_id \in DOMAIN rate_limit_store
    /\ ~rl_ret.admitted
    /\ Len(rate_limit_store[rl_ret.user_id]) = MAX_REQUESTS_PER_MINUTE
    /\ rate_limit_store[rl_ret.user_id][1] > 0

(* C4: when generate raises because every attempt failed, it has made exactly
   LOCAL_LLM_RETRY_ATTEMPTS network attempts and the failure is a 503; it
   never makes more attempts than that. *)
C4_ExactlyNAttempts ==
    \A r \in Reqs :
        /\ effects[r].local_attempts <= LOCAL_LLM_RETRY_ATTEMPTS
        /\ effects[r].local_raised =>
              /\ effects[r].local_attempts = LOCAL_LLM_RETRY_ATTEMPTS
              /\ Done(r) /\ result[r].status = 503
              /\ result[r].detail = "LLM request failed"
        /\ (pc[r] = "local_sleep" \/ pc[r] = "local_post") =>
              ~effects[r].local_raised

\* generate gave up after a retry
C4_Witness ==
    \E r \in Reqs :
        /\ effects[r].local_raised
        /\ effects[r].local_attempts = LOCAL_LLM_RETRY_ATTEMPTS
        /\ LOCAL_LLM_RETRY_ATTEMPTS >= 2

(* C5: the credit gate applies exactly on a path that is not free: there a user
   whose balance is below min_credits_for_chat is rejected with 402 and no
   provider call is made; a balance at or above the threshold, and any balance
   on the free path, is not rejected with 402. *)
C5_CreditGate ==
    \A r \in Reqs :
        GateDecided(r) =>
            IF NotFreePath(r) /\ user[r].credits < frame[r].min_credits
            THEN Done(r) /\ result[r].status = 402 /\ NoProviderCall(r)
            ELSE result[r].status # 402

\* a local request is rejected at the gate because local inference is billed
C5_Witness ==
    \E r \in Reqs :
        /\ GateDecided(r) /\ result[r].status = 402
        /\ frame[r].use_local /\ ~frame[r].local_llm_free
        /\ user[r].credits = 4

(* C6: every chat that ends Completed, through the primary dispatch or through
   the fallback, has persisted exactly one chat_history entry. *)
C6_OneRecordPerCompletedChat ==
    \A r \in Reqs :
        (IsChat(r) /\ Completed(r)) =>
            /\ effects[r].records = 1
            /\ Len(SelectSeq(db_chat_history, LAMBDA h : h.request = r)) = 1

(* C7: every chat that ends Failed leaves the user's credits and
   total_credits_used as they were before the call. *)
C7_FailedChatKeepsBalance ==
    \A r \in Reqs :
        (IsChat(r) /\ Failed(r)) => BalanceUntouched(r)

(* C8: a chat rejected at admission (invalid agent, rate limit, prompt size,
   insufficient credits) has made no provider call, changed no balance and
   written no usage record. *)
C8_RejectedChatHasNoEffect ==
    \A r \in Reqs :
        (IsChat(r) /\ Done(r) /\ result[r].status \in {400, 429, 402}) =>
            /\ NoProviderCall(r)
            /\ BalanceUntouched(r)
            /\ effects[r].records = 0
            /\ db_chat_history = << >>

\* a chat of a user short of credits is rejected on the cloud path
C8_Witness ==
    \E r \in Reqs :
        /\ IsChat(r) /\ Done(r) /\ result[r].status = 402
        /\ ~frame[r].use_local

(* C9: a chat or generate call rejected for an oversized prompt or for
   insufficient credits has not added a timestamp to the caller's bucket. *)
C9_RejectionConsumesNoQuota ==
    \A r \in Reqs :
        (Done(r) /\ result[r].detail \in
            {"Message too large", "Prompt too large", "Insufficient credits"})
        => effects[r].stamped = 0

(* C10: every successful chat on a path that is not free is charged
   max(1, floor((words(prompt) + words(response)) * credits_per_1k_tokens / 1000)),
   on the local path as on the cloud path. *)
C10_CreditFormula ==
    \A r \in Reqs :
        (IsChat(r) /\ Completed(r) /\ ~result[r].fallback /\ NotFreePath(r)) =>
            result[r].credits_used =
                Max(1, ((data[r].message.words + result[r].response)
                            * frame[r].credits_per_1k) \div 1000)

\* the chat of r is served by local inference under the local-is-free policy
FreeLocalPath(r) == GateDecided(r) /\ frame[r].use_local /\ frame[r].local_llm_free

(* C11: a chat served by local inference while local_llm_free is on is never
   rejected by the credit gate, whatever the user's balance; it leaves the
   balance unchanged and a reply reports credits_used = 0. *)
C11_FreeLocalChat ==
    \A r \in Reqs :
        FreeLocalPath(r) =>
            /\ result[r].status # 402
            /\ BalanceUntouched(r)
            /\ frame[r].credits_used = 0
            /\ Completed(r) => result[r].credits_used = 0

\* a user below the credit threshold is served by the local provider
C11_Witness ==
    \E r \in Reqs :
        /\ FreeLocalPath(r) /\ Completed(r) /\ ~result[r].fallback
        /\ user[r].credits < frame[r].min_credits
        /\ effects[r].local_attempts >= 1

(* C12: credits_used is >= 0 in every chat_history entry and every chat reply;
   it is 0 only on the free local path or in a fallback reply, and >= 1 in
   every other entry and reply, whatever credits_per_1k_tokens is. *)
C12_CreditsNonNegative ==
    /\ \A i \in 1..Len(db_chat_history) :
          LET h == db_chat_history[i] IN
          IF h.use_local_llm /\ frame[h.request].local_llm_free
          THEN h.credits_used = 0
          ELSE h.credits_used >= 1
    /\ \A r \in Reqs :
          (IsChat(r) /\ Completed(r)) =>
              IF result[r].fallback \/ (frame[r].use_local /\ frame[r].local_llm_free)
              THEN result[r].credits_used = 0
              ELSE result[r].credits_used >= 1

\* a cloud chat is charged the minimum under a rate that is not positive
C12_Witness ==
    \E r \in Reqs :
        /\ IsChat(r) /\ Completed(r) /\ ~frame[r].use_local
        /\ frame[r].credits_per_1k <= 0
        /\ result[r].credits_used = 1
        /\ Len(db_chat_history) = 1

\* the primary provider of r has replied
PrimarySucceeded(r) == frame[r].response >= 0

\* the primary dispatch of r has failed: generate gave up, or the cloud call raised
PrimaryFailed(r) ==
    \/ effects[r].local_raised
    \/ ~frame[r].use_local /\ effects[r].cloud_calls = 1 /\ ~PrimarySucceeded(r)

(* C13: a chat calls the fallback at most once, and only when its primary
   dispatch failed, the request preferred local and a cloud key is set; a
   request whose primary dispatch succeeded makes no second provider call, and
   a dispatch failure without applicable fallback ends the call Failed. *)
C13_FallbackOnlyAfterDispatchFailure ==
    \A r \in Reqs :
        IsChat(r) =>
            /\ effects[r].fallback_calls <= 1
            /\ (pc[r] = "fallback" \/ effects[r].fallback_calls = 1) =>
                  PrimaryFailed(r) /\ frame[r].use_local /\ EMERGENT_LLM_KEY
            /\ PrimarySucceeded(r) =>
                  pc[r] # "fallback" /\ effects[r].fallback_calls = 0
            /\ (PrimaryFailed(r) /\ ~(frame[r].use_local /\ EMERGENT_LLM_KEY)) =>
                  Failed(r)

(* C14: a chat whose local dispatch fails while a cloud key is set, and that
   does not complete through the fallback, ends with 503 and a detail starting
   "LLM service unavailable", and no credits are charged. *)
C14_BothFailUnavailable ==
    \A r \in Reqs :
        (IsChat(r) /\ Failed(r) /\ frame[r].use_local /\ EMERGENT_LLM_KEY
            /\ effects[r].local_raised /\ effects[r].local_attempts >= 1)
        => /\ result[r].status = 503
           /\ result[r].detail = "LLM service unavailable"
           /\ effects[r].deducted = 0

\* the call truncated: the early return of line 137 was not taken
Truncated == tc_called /\ SumLen(tc_messages) > tc_max_chars

\* the history given to the walk: the input without system and final message
HistoryIn ==
    LET rest == SubSeq(tc_messages, Len(SystemPart(tc_messages)) + 1,
                       Len(tc_messages))
    IN  IF rest # << >> THEN SubSeq(rest, 1, Len(rest) - 1) ELSE << >>

\* the history retained: the output without system and final message
HistoryOut ==
    SubSeq(tc_result, Len(SystemPart(tc_messages)) + 1,
           Len(tc_result) - Len(LastPart(tc_messages)))

\* the n most recent messages of the history
Recent(n) == SubSeq(HistoryIn, Len(HistoryIn) - n + 1, Len(HistoryIn))

(* C15: the output of _truncate_context starts with the leading system
   message, if there is one, and ends with the final message, both unchanged. *)
C15_SystemAndFinalKept ==
    (tc_called /\ tc_messages # << >>) =>
        /\ tc_result # << >>
        /\ tc_result[Len(tc_result)] = tc_messages[Len(tc_messages)]
        /\ tc_messages[1].role = "system" => tc_result[1] = tc_messages[1]

C15_Witness ==
    /\ Truncated
    /\ tc_messages[1].role = "system"
    /\ Len(tc_messages) > Len(tc_result)
    /\ Len(tc_result) >= 3
    /\ tc_result[1] = tc_messages[1]
    /\ tc_result[Len(tc_result)] = tc_messages[Len(tc_messages)]
    /\ Len(tc_messages[Len(tc_messages)].content) > 0

(* C16: when _truncate_context truncates, the retained history messages are
   in their original order, oldest kept first. *)
C16_HistoryInOrder ==
    Truncated => HistoryOut = Recent(Len(HistoryOut))

\* the budget left for history after the system and final messages
HistoryBudget ==
    tc_max_chars - SumLen(SystemPart(tc_messages)) - SumLen(LastPart(tc_messages))

\* the length of the longest run of most recent history that fits the budget
LongestFit ==
    Max(0, CHOOSE n \in 0..Len(HistoryIn) :
               /\ n > 0 => SumLen(Recent(n)) <= HistoryBudget
               /\ \A k \in (n + 1)..Len(HistoryIn) :
                      SumLen(Recent(k)) > HistoryBudget)

(* C17: when _truncate_context truncates, it retains as many of the most
   recent history messages as fit the budget together with the system and
   final messages, an exact fit included. *)
C17_LongestFittingRun ==
    Truncated => Len(HistoryOut) = LongestFit

(* C18: the output of _format_messages is the system message (when a system
   prompt is given), then the last 10 history entries (all of them when there
   are fewer) in their original order, then the current user message. *)
C18_LastTenHistory ==
    fm_called =>
        LET n    == Len(fm_history)
            k    == IF n > 10 THEN 10 ELSE n
            sys  == IF fm_system_prompt # "" THEN 1 ELSE 0
        IN  /\ Len(fm_result) = sys + k + 1
            /\ sys = 1 => fm_result[1] = [role |-> "system", content |-> fm_system_prompt]
            /\ \A j \in 1..k :
                  /\ fm_result[sys + j].content = fm_history[n - k + j].content
                  /\ fm_result[sys + j].role = Get(fm_history[n - k + j], "role", "user")
            /\ fm_result[Len(fm_result)] = [role |-> "user", content |-> fm_user_message]

C18_Witness ==
    /\ fm_called
    /\ Len(fm_history) = 11
    /\ fm_system_prompt # ""
    /\ fm_history[1] # fm_history[11]
    /\ fm_history[1] # fm_history[2]
    /\ Len(fm_result) = 12
    /\ fm_result[2].content = fm_history[2].content

\* check_rate_limit has been called; rl_ret describes the latest call
RateChecked == rl_ret.user_id # "none"

(* C19: check_rate_limit returns false exactly when the pruned bucket of the
   user already holds at least the ceiling number of timestamps, and then the
   bucket is the pruned one; otherwise the bucket is the pruned one with the
   single timestamp now appended, and it returns true. *)
C19_AdmitIffUnderCeiling ==
    RateChecked =>
        LET pruned == PruneBucket(rl_ret.before, rl_ret.at)
            bucket == rate_limit_store[rl_ret.user_id]
        IN  /\ ~rl_ret.admitted <=> Len(pruned) >= MAX_REQUESTS_PER_MINUTE
            /\ ~rl_ret.admitted => bucket = pruned
            /\ rl_ret.admitted => bucket = Append(pruned, rl_ret.at)

C19_Witness ==
    /\ RateChecked
    /\ ~rl_ret.admitted
    /\ rl_ret.at > 0
    /\ rate_limit_store[rl_ret.user_id] = rl_ret.before
    /\ Len(rl_ret.before) >= 2
    /\ rl_ret.before[1] < rl_ret.before[2]

(* C20: a call made while the ceiling number of admissions are all younger
   than 60 seconds is rejected, and a call made more than 60 seconds after the
   oldest counted admission is admitted. *)
C20_RejectInsideWindowThenResume ==
    RateChecked =>
        LET before == rl_ret.before
        IN  /\ ( /\ Len(before) >= MAX_REQUESTS_PER_MINUTE
                 /\ \A i \in 1..Len(before) : rl_ret.at - before[i] < 60 )
               => ~rl_ret.admitted
            /\ (before # << >> /\ rl_ret.at - before[1] > 60)
               => rl_ret.admitted

C20_Witness ==
    /\ RateChecked
    /\ rl_ret.admitted
    /\ Len(rl_ret.before) = MAX_REQUESTS_PER_MINUTE
    /\ MAX_REQUESTS_PER_MINUTE >= 2
    /\ rl_ret.at - rl_ret.before[1] > 60
    /\ rl_ret.at - rl_ret.before[2] < 60

\* the stamps the latest call found and left in the bucket
KeptStamps ==
    LET bucket == rate_limit_store[rl_ret.user_id]
    IN  IF rl_ret.admitted THEN SubSeq(bucket, 1, Len(bucket) - 1) ELSE bucket

(* C21: an admission check removes from the bucket exactly the timestamps
   older than now - 60: every timestamp t >= now - 60 it found is kept, one
   exactly 60 seconds old included, and counts against the ceiling. *)
C21_PruneKeepsExactlySixty ==
    RateChecked =>
        /\ KeptStamps = SelectSeq(rl_ret.before, LAMBDA t : t >= rl_ret.at - 60)
        /\ Len(SelectSeq(rl_ret.before, LAMBDA t : t >= rl_ret.at - 60))
               >= MAX_REQUESTS_PER_MINUTE => ~rl_ret.admitted

\* request r is inside LocalLLMClient.generate
InGenerate(r) == pc[r] \in {"local_post", "local_sleep"}

\* the generate call of request r raised after using up its attempts
GenerateRaised(r) == effects[r].local_raised

(* C23: the k-th delay slept by generate is LOCAL_LLM_RETRY_DELAY * k and
   follows the k-th failed attempt; the delays never decrease; after the final
   failed attempt nothing is slept, so a call that raises after N attempts has
   slept N - 1 times. *)
C23_LinearRetryDelay ==
    \A r \in Reqs :
        LET d == effects[r].delays IN
        /\ \A k \in 1..Len(d) : d[k] = LOCAL_LLM_RETRY_DELAY * k
        /\ \A k \in 1..(Len(d) - 1) : d[k] <= d[k + 1]
        /\ pc[r] = "local_sleep" => Len(d) = effects[r].failed
        /\ pc[r] = "local_post" => Len(d) = effects[r].local_attempts
        /\ (GenerateRaised(r) /\ effects[r].local_attempts >= 1) =>
              /\ effects[r].failed = LOCAL_LLM_RETRY_ATTEMPTS
              /\ Len(d) = LOCAL_LLM_RETRY_ATTEMPTS - 1

C23_Witness ==
    \E r \in Reqs :
        /\ GenerateRaised(r)
        /\ LOCAL_LLM_RETRY_ATTEMPTS = 3
        /\ LOCAL_LLM_RETRY_DELAY = 3
        /\ effects[r].delays = << 3, 6 >>

(* C24: an attempt of generate answered with a non-2xx status is a failed
   attempt like any other: every failed attempt, of whatever kind, used one
   of the N attempts, and there are never more than N attempts. *)
C24_EveryFailureUsesOneSlot ==
    \A r \in Reqs :
        /\ effects[r].local_attempts <= LOCAL_LLM_RETRY_ATTEMPTS
        /\ effects[r].failed <= effects[r].local_attempts
        /\ effects[r].last_outcome \in AttemptFailures =>
              effects[r].failed = effects[r].local_attempts
        /\ effects[r].last_outcome = "ok" =>
              effects[r].failed = effects[r].local_attempts - 1
        /\ (effects[r].last_outcome = "HTTP" /\ ~GenerateRaised(r)) =>
              /\ InGenerate(r)
              /\ effects[r].local_attempts < LOCAL_LLM_RETRY_ATTEMPTS

C24_Witness ==
    \E r \in Reqs :
        /\ GenerateRaised(r)
        /\ effects[r].last_outcome = "HTTP"
        /\ effects[r].mixed
        /\ effects[r].local_attempts = 3
        /\ effects[r].failed = 3

(* C25: the error generate raises after its last attempt carries the cause of
   that last attempt. *)
C25_RaisesLastCause ==
    \A r \in Reqs :
        (GenerateRaised(r) /\ effects[r].local_attempts >= 1) =>
            /\ result[r].status = 503
            /\ result[r].cause = effects[r].last_outcome
            /\ result[r].cause \in AttemptFailures

C25_Witness ==
    \E r \in Reqs :
        /\ GenerateRaised(r)
        /\ effects[r].mixed
        /\ effects[r].local_attempts = 2
        /\ effects[r].last_outcome = "Request timed out"
        /\ result[r].cause = "Request timed out"

\* the generate call of request r returned a response text
GenerateReturned(r) == ~InGenerate(r) /\ effects[r].last_outcome = "ok"

(* C26: when every network attempt ends, a call of generate ends, with a
   response text or with the provider-unavailable failure, after at most N
   attempts; it is never left in any other way. *)
C26_GenerateTerminates ==
    /\ \A r \in Reqs :
          InGenerate(r) ~> (GenerateReturned(r) \/ GenerateRaised(r))
    /\ [](\A r \in Reqs :
            /\ effects[r].local_attempts <= LOCAL_LLM_RETRY_ATTEMPTS
            /\ (effects[r].local_attempts >= 1 /\ ~InGenerate(r)) =>
                  \/ GenerateReturned(r) /\ frame[r].response >= 0
                  \/ GenerateRaised(r) /\ result[r].status = 503)

C26_Witness ==
    \E r \in Reqs :
        /\ GenerateReturned(r)
        /\ effects[r].local_attempts = 3
        /\ effects[r].failed = 2
        /\ data[r].endpoint = "generate"
        /\ result[r].status = 200

\* caller c has its answer from get_available_models
ModelsDone(c) == mr_call[c].pc = "done"

(* C27: a get_available_models call that is not forced and is made less than
   60 seconds after the last successful fetch returns the list of that fetch,
   an empty list included, without querying the provider; a forced call, and
   a call made 60 seconds or more after the last successful fetch, query. *)
C27_CacheServesWithinSixty ==
    \A c \in Callers :
        LET call == mr_call[c]
            fresh == call.seen_ok /\ call.at - call.seen_time < 60
        IN  /\ (ModelsDone(c) /\ ~call.force_refresh /\ fresh) =>
                  ~call.queried /\ call.ret = PyList(call.seen_list)
            /\ (call.pc # "idle" /\ (call.force_refresh \/ ~fresh)) => call.queried

(* C28: a refresh that fails, by an exception or a status other than 200,
   returns an empty list to its caller and leaves the cached list and its
   fetch time as they were. *)
C28_FailedRefreshKeepsCache ==
    [][\A c \in Callers :
          (mr_call[c].pc = "get" /\ mr_call'[c].pc = "done"
              /\ mr_call'[c].outcome \in {"status", "exception"})
          => /\ mr_call'[c].ret = PyList(<< >>)
             /\ available_models_cache' = available_models_cache
             /\ cache_time' = cache_time]_vars

C28_Witness ==
    \E c \in Callers :
        /\ ModelsDone(c)
        /\ mr_call[c].outcome = "exception"
        /\ mr_call[c].ret = PyList(<< >>)
        /\ available_models_cache = PyList(<< "m1", "m2" >>)
        /\ cache_time > 0
        /\ now > cache_time

(* C29: the cached list and its fetch time always come from the same fetch,
   in the cache and in what every caller answered from the cache has read *)
C29_ListAndTimeOfSameFetch ==
    /\ mr_fetches.list_by = mr_fetches.time_by
    /\ mr_fetches.ok =>
          /\ available_models_cache = PyList(mr_fetches.ok_list)
          /\ cache_time = mr_fetches.ok_time
    /\ \A c \in Callers :
          mr_call[c].outcome = "cached" => mr_call[c].list_by = mr_call[c].time_by

C29_Witness ==
    \E c, d \in Callers :
        /\ c # d
        /\ mr_call[c].outcome = "cached"
        /\ mr_call[c].list_by = 2
        /\ mr_call[d].pc = "get"
        /\ mr_fetches.count = 3

\* line i is one the dialect cannot parse into a chunk
Malformed(i) == st_lines[i] \in {"not_json", "wrong_shape"}

\* the end marker of the OpenAI dialect arrived before line j
EndMarkerBefore(j) ==
    ParseDialect(st_provider) = "openai" /\ \E i \in 1..(j - 1) : st_lines[i] = "done"

\* chunk c was yielded
Delivered(c) == \E k \in 1..Len(st_out) : st_out[k] = c

(* C30: in generate_stream a line that cannot be parsed into a chunk is
   skipped: every content line that arrives after such a line, and before the
   end marker, has been delivered when the stream has ended. *)
C30_MalformedLineSkipped ==
    st_pc = "ended" =>
        \A j \in 1..Len(st_lines) :
            ( /\ st_lines[j] = "content"
              /\ ~EndMarkerBefore(j)
              /\ \E i \in 1..(j - 1) : Malformed(i) )
            => Delivered(j)

\* the admissions of the user of admission i that were at most i-th in the log
\* and less than 60 seconds old when admission i happened
InWindowOf(i, upto) ==
    { j \in 1..upto : /\ cc_log[j].user_id = cc_log[i].user_id
                      /\ cc_log[i].at - cc_log[j].at < 60 }

(* C22: the admission check is one atomic step of a handler: every admission
   counted all earlier admissions of its user that were less than 60 seconds
   old, so no two requests are admitted on the same bucket count, and the
   admissions of a user inside any window of 60 seconds never exceed the
   ceiling, whatever the interleaving of the handlers. *)
C22_AtomicAdmission ==
    \A i \in 1..Len(cc_log) :
        /\ cc_log[i].count = Cardinality(InWindowOf(i, i - 1))
        /\ cc_log[i].count < MAX_REQUESTS_PER_MINUTE
        /\ Cardinality(InWindowOf(i, i)) <= MAX_REQUESTS_PER_MINUTE
        /\ \A j \in InWindowOf(i, i - 1) :
              cc_log[j].at = cc_log[i].at => cc_log[j].count # cc_log[i].count

C22_Witness ==
    /\ Len(cc_log) = 2
    /\ MAX_REQUESTS_PER_MINUTE = 2
    /\ cc_log[1].user_id = cc_log[2].user_id
    /\ cc_log[1].at = cc_log[2].at
    /\ cc_log[2].count = 1
    /\ \A h \in Handlers : cc_call[h].user_id = cc_log[1].user_id
    /\ cc_call["chat"].pc = "admitted"
    /\ cc_call["generate"].pc = "rejected"
    /\ cc_call["stream"].pc = "admitted"

\* the chunks yielded that carry the content of a line
ContentChunks == SelectSeq(st_out, LAMBDA c : c # ErrorChunk)

\* the events sent that carry a chunk
ChunkEvents == SelectSeq(st_events, LAMBDA e : e # Sentinel)

\* how often x occurs in the sequence q
Occurrences(q, x) == Cardinality({ k \in 1..Len(q) : q[k] = x })

(* C31: generate_stream ends normally when the end marker of the dialect is
   received or the connection closes: a stream that ended so has yielded no
   error chunk, a stream whose latest line was the end marker has ended by it,
   and no content line that arrived after the end marker is ever delivered. *)
C31_NormalEndOfStream ==
    /\ st_end \in {"marker", "close"} =>
           st_pc = "ended" /\ ~Delivered(ErrorChunk)
    /\ ( /\ st_pos > 0
         /\ st_lines[st_pos] = "done"
         /\ ParseDialect(st_provider) = "openai" ) => st_end = "marker"
    /\ (st_pc = "ended" /\ st_pos = Len(st_lines) /\ ~st_fails /\ st_end # "error")
           => st_end \in {"marker", "close"}
    /\ \A j \in 1..Len(st_lines) :
           (st_lines[j] = "content" /\ EndMarkerBefore(j)) => ~Delivered(j)

\* a stream ended by the end marker, with content delivered before it and a
\* content line behind it
C31_Witness ==
    /\ st_end = "marker"
    /\ Len(st_out) >= 1
    /\ st_pos < Len(st_lines)
    /\ st_lines[Len(st_lines)] = "content"

(* C32: when the transport or the handling of a line raises while streaming,
   generate_stream yields exactly one error chunk, as its last chunk, and
   stops; the content of every line taken before the error stays delivered,
   and the error chunk is yielded in no other case. *)
C32_ErrorChunkIsLast ==
    /\ st_end = "error" =>
           /\ st_pc = "ended"
           /\ Len(st_out) >= 1
           /\ st_out[Len(st_out)] = ErrorChunk
           /\ Occurrences(st_out, ErrorChunk) = 1
           /\ \A j \in 1..st_pos : st_lines[j] = "content" => Delivered(j)
    /\ Delivered(ErrorChunk) => st_end = "error"

\* the transport failed in mid-stream after two chunks had been delivered
C32_Witness ==
    /\ st_end = "error"
    /\ st_fails
    /\ st_pos = Len(st_lines)
    /\ Len(st_out) = 3

(* C33: the response of the generate/stream endpoint, once the request has
   passed the admission checks, ends with exactly one sentinel event, which is
   its last event, however the stream ended: by the end marker, by the close
   of the connection, with no chunk at all or after an error; before the end
   no sentinel is sent. *)
C33_OneSentinelLast ==
    /\ st_pc = "ended" =>
           /\ Len(st_events) >= 1
           /\ st_events[Len(st_events)] = Sentinel
           /\ Occurrences(st_events, Sentinel) = 1
    /\ st_pc # "ended" => Occurrences(st_events, Sentinel) = 0

\* a response that ended after an upstream error: a chunk, the error, the sentinel
C33_Witness ==
    /\ st_pc = "ended"
    /\ st_end = "error"
    /\ Len(st_events) = 3
    /\ st_events[2] = ErrorChunk

(* C34: the chunks delivered for one streaming request are the contents of the
   content lines taken so far, each once and in the order the lines arrived,
   and the endpoint sends the chunks as events in the order they were yielded. *)
C34_ChunksInReceiptOrder ==
    /\ \A k \in 1..Len(ContentChunks) :
           /\ ContentChunks[k] \in 1..st_pos
           /\ st_lines[ContentChunks[k]] = "content"
    /\ \A k, l \in 1..Len(ContentChunks) :
           k < l => ContentChunks[k] < ContentChunks[l]
    /\ \A j \in 1..st_pos : st_lines[j] = "content" => Delivered(j)
    /\ (st_pc # "ended" \/ st_end # "error") => ContentChunks = st_out
    /\ ChunkEvents = st_out

\* three chunks delivered, with a line skipped between them
C34_Witness ==
    /\ st_pc = "ended"
    /\ Len(ContentChunks) = 3
    /\ ContentChunks[3] = 4
    /\ Len(ChunkEvents) = 3

(* C35: for a provider kind that is none of ollama, lmstudio and llamacpp the
   client uses the ollama dialect in every respect: the endpoint requested,
   the shape of the payload and the shape the reply is parsed as. *)
C35_UnknownProviderIsOllama ==
    (st_pc \in {"reading", "ended"} /\ st_provider \notin KnownProviders) =>
        /\ st_request.endpoints = "ollama"
        /\ st_request.payload = "ollama"
        /\ ParseDialect(st_provider) = "ollama"

(* C36: a streaming request whose provider answers with a status code that is
   not a success has delivered an explicit failure, the error chunk, when the
   response ends with the sentinel. *)
C36_ErrorStatusSurfaced ==
    (st_pc = "ended" /\ st_status # 200) => Delivered(ErrorChunk)

(* C37: in generate the first attempt that gets a successful response ends the
   call: the call is left, the successful attempt is the latest one and follows
   only failed ones, no delay was slept but those after the failed attempts,
   and the generate endpoint answers with the content of that response. *)
C37_FirstSuccessEndsGenerate ==
    \A r \in Reqs :
        effects[r].last_outcome = "ok" =>
            /\ ~InGenerate(r)
            /\ effects[r].local_attempts = effects[r].failed + 1
            /\ Len(effects[r].delays) = effects[r].failed
            /\ ~GenerateRaised(r)
            /\ (data[r].endpoint = "generate" /\ pc[r] = "done") =>
                   (result[r].status = 200 /\ result[r].response \in ResponseWords)

\* the second of three attempts succeeded and the call has returned
C37_Witness ==
    \E r \in Reqs :
        /\ effects[r].last_outcome = "ok"
        /\ LOCAL_LLM_RETRY_ATTEMPTS = 3
        /\ effects[r].local_attempts = 2
        /\ effects[r].delays = << LOCAL_LLM_RETRY_DELAY >>
        /\ data[r].endpoint = "generate"
        /\ pc[r] = "done"

(* C39: the credit balance of a user never goes below zero: no deduction of a
   completed chat exceeds the balance the user holds when it is applied. *)
C39_BalanceNeverNegative ==
    \A u \in Users : db_users[u].credits >= 0

(* C38: a call check_rate_limit(u) changes the bucket of u only: every other
   user v has a bucket after the call exactly if v had one before, with the
   same timestamps, and a check of v would be decided as before the call. *)
C38_OnlyOwnBucketChanges ==
    [][ \A v \in Users :
          v # rl_ret'.user_id =>
             /\ (v \in DOMAIN rate_limit_store') = (v \in DOMAIN rate_limit_store)
             /\ v \in DOMAIN rate_limit_store =>
                    rate_limit_store'[v] = rate_limit_store[v]
             /\ now' = now =>
                    check_rate_limit(rate_limit_store', v, now')
                        = check_rate_limit(rate_limit_store, v, now) ]_vars

\* u1 has just been admitted while u2 is at the ceiling, its bucket kept
C38_Witness ==
    /\ rl_ret.user_id = "u1"
    /\ rl_ret.admitted
    /\ rl_ret.before # << >>
    /\ "u2" \in DOMAIN rate_limit_store
    /\ Len(rate_limit_store["u2"]) = MAX_REQUESTS_PER_MINUTE
    /\ ~check_rate_limit(rate_limit_store, "u2", now)
====
